---------------------------- MODULE Spec2Model ----------------------------
(***************************************************************************)
(* Model of src/yanshe.py: class EqualInclinationInterference.             *)
(*                                                                         *)
(* Numbers are fixed point:                                                *)
(*   wavelength            tenths of a nanometre   (632.8 nm = 6328)       *)
(*   refractive_index      tenths                  (1.5      = 15)         *)
(*   thickness             nanometres                                      *)
(*   incidence_angle_range degrees                                         *)
(*   angles / phases       thousandths of a turn   (360 deg  = 1000)       *)
(*   cos, sin              thousandths             (1.0      = 1000)       *)
(*   intensity             thousandths                                     *)
(* A grid coordinate x is kept as the integer x * Den(resolution).         *)
(***************************************************************************)
EXTENDS Integers, Sequences, FiniteSets, TLC

\* ------------------------------------------------------------- bounds ---
MaxResolution == 4
MaxFrames == 4

\* ------------------------------------------------- numeric primitives ---
\* floor of the square root, for theta = np.sqrt(X**2 + Y**2)
RECURSIVE Bisect(_, _, _)
Bisect(v, lo, hi) ==
    IF hi - lo <= 1 THEN lo
    ELSE LET mid == (lo + hi) \div 2
         IN  IF mid * mid <= v THEN Bisect(v, mid, hi) ELSE Bisect(v, lo, mid)

ISqrt(v) == Bisect(v, 0, 1024)

\* cos of an angle of |t| <= 250 thousandths of a turn (a quarter turn)
CosQuarter(t) == (1000 * (250000 - 4 * t * t)) \div (250000 + t * t)

\* np.cos of an angle given in thousandths of a turn; result in thousandths
Cos(m) ==
    LET r == m % 1000
    IN  IF r <= 250 THEN CosQuarter(r)
        ELSE IF r < 750 THEN -CosQuarter(r - 500)
        ELSE CosQuarter(r - 1000)

\* np.sin of an angle given in thousandths of a turn; result in thousandths
Sin(m) == Cos(m - 250)

\* ------------------------------------------------ _calculate_pattern ---
\* denominator of the grid coordinates of np.linspace(-a, a, n)
Den(n) == IF n > 1 THEN n - 1 ELSE 1

\* a linspace that leaves out the end point (spacing 2a/n)
LinspaceNoEndpoint(a, n, i) == IF n > 1 THEN (a * (2 * i - n) * (n - 1)) \div n ELSE -a

\* np.linspace(-a, a, n)[i], times Den(n)
Linspace(a, n, i) == IF n > 1 THEN a * (2 * i - (n - 1)) ELSE -a

\* theta at grid cell (i, j), X[i][j] = x[j], Y[i][j] = y[i], converted to
\* thousandths of a turn (np.radians)
ThetaRad(a, n, i, j) ==
    LET x == Linspace(a, n, j)
        y == Linspace(a, n, i)
    IN  ISqrt(((x * x + y * y) * 625) \div (81 * Den(n) * Den(n)))

\* delta = 4 pi n d cos(theta) / wavelength, in thousandths of a turn
\* a phase difference of 2 pi n d cos(theta) / wavelength
DeltaHalf(w, ri, d, c) == (ri * d * c) \div w

Delta(w, ri, d, c) == (2 * ri * d * c) \div w

\* intensity = intensity_max * (1 + cos(delta))
\* an intensity with a doubled cosine term
IntensityDoubleCos(imax, dl) == imax * (1000 + 2 * Cos(dl))

Intensity(imax, dl) == imax * (1000 + Cos(dl))

calculate_pattern(w, ri, d, a, imax, n) ==
    [i \in 0..(n - 1) |-> [j \in 0..(n - 1) |->
        Intensity(imax, Delta(w, ri, d, Cos(ThetaRad(a, n, i, j))))]]

\* the field of the object's current parameters
Pattern(s) ==
    calculate_pattern(s.wavelength, s.refractive_index, s.thickness,
                      s.incidence_angle_range, s.intensity_max, s.resolution)

Extent(a) == <<-a, a, -a, a>>


\* ------------------------------------------------------------ widgets ---
SliderNames ==
    {"slider_wavelength", "slider_thickness", "slider_refractive", "slider_angle"}

\* valmin and valmax given to the four Slider constructors
valmin(name) ==
    CASE name = "slider_wavelength" -> 4000
      [] name = "slider_thickness" -> 100
      [] name = "slider_refractive" -> 10
      [] name = "slider_angle" -> 5

valmax(name) ==
    CASE name = "slider_wavelength" -> 8000
      [] name = "slider_thickness" -> 5000
      [] name = "slider_refractive" -> 20
      [] name = "slider_angle" -> 60

\* Slider._value_in_bounds: a slider holds only values of [valmin, valmax]
value_in_bounds(name, v) ==
    IF v <= valmin(name) THEN valmin(name)
    ELSE IF v >= valmax(name) THEN valmax(name)
    ELSE v

\* Slider(ax, label, valmin, valmax, valinit=v): val and valinit start at
\* the value brought into bounds
Slider(name, v) ==
    [val |-> value_in_bounds(name, v), valinit |-> value_in_bounds(name, v)]

\* ------------------------------------------------------------ methods ---
\* update that pushes the display bounds of the angle range it started with
updateStaleExtent(s) ==
    LET s1 == [s EXCEPT !.wavelength = s.slider_wavelength.val,
                        !.thickness = s.slider_thickness.val,
                        !.refractive_index = s.slider_refractive.val,
                        !.incidence_angle_range = s.slider_angle.val]
    IN  [s1 EXCEPT !.img = [data |-> Pattern(s1),
                            extent |-> Extent(s.incidence_angle_range)],
                   !.draw_idle = s.draw_idle + 1]

\* update(self, val): the callback of all four sliders
update(s) ==
    LET s1 == [s EXCEPT !.wavelength = s.slider_wavelength.val,
                        !.thickness = s.slider_thickness.val,
                        !.refractive_index = s.slider_refractive.val,
                        !.incidence_angle_range = s.slider_angle.val]
    IN  [s1 EXCEPT !.img = [data |-> Pattern(s1),
                            extent |-> Extent(s1.incidence_angle_range)],
                   !.draw_idle = s.draw_idle + 1]

\* Slider.set_val(v): stores v unclipped and calls the registered observer
set_val(s, name, v) == update([s EXCEPT ![name].val = v])

\* a reset that calls set_val whether or not the value differs
Slider_resetAlways(s, name) == set_val(s, name, s[name].valinit)

\* Slider.reset(): set_val(valinit) only if val differs from valinit
Slider_reset(s, name) ==
    IF s[name].val # s[name].valinit THEN set_val(s, name, s[name].valinit)
    ELSE s

\* reset(self, event): the callback of the Reset button
reset(s) ==
    LET s1 == Slider_reset(s, "slider_wavelength")
        s2 == Slider_reset(s1, "slider_thickness")
        s3 == Slider_reset(s2, "slider_refractive")
    IN  Slider_reset(s3, "slider_angle")

\* a schedule whose sine is not halved
ScheduleFullSine(frame, frames) ==
    100 + (4900 * (500 + Sin((frame * 1000) \div frames))) \div 1000

\* 100 + 4900 * (0.5 + 0.5 * np.sin(frame * 2 * np.pi / frames))
Schedule(frame, frames) ==
    100 + (4900 * (1000 + Sin((frame * 1000) \div frames))) \div 2000

\* an update_frame that assigns the thickness without moving the slider
update_frameNoSetVal(s, frame, frames) ==
    [s EXCEPT !.thickness = Schedule(frame, frames)]

\* update_frame(frame) of animate(frames)
update_frame(s, frame, frames) ==
    LET s1 == [s EXCEPT !.thickness = Schedule(frame, frames)]
    IN  set_val(s1, "slider_thickness", s1.thickness)

\* __init__(wavelength, refractive_index, thickness, incidence_angle_range,
\*          intensity_max, resolution)
Construct(w, ri, d, a, imax, n) ==
    [wavelength |-> w, refractive_index |-> ri, thickness |-> d,
     incidence_angle_range |-> a, intensity_max |-> imax, resolution |-> n,
     slider_wavelength |-> Slider("slider_wavelength", w),
     slider_thickness |-> Slider("slider_thickness", d),
     slider_refractive |-> Slider("slider_refractive", ri),
     slider_angle |-> Slider("slider_angle", a),
     img |-> [data |-> calculate_pattern(w, ri, d, a, imax, n),
              extent |-> Extent(a)],
     draw_idle |-> 0]

\* -------------------------------------------------------------- inputs ---
\* constructor arguments: the example's and the defaults' values, and values
\* outside the slider ranges, which the constructor accepts as well
ArgWavelength == {6328, 10000}
ArgRefractive == {10}
ArgThickness == {1500}
ArgAngle == {30, 70}
ArgIntensity == {1, 2}
ArgResolution == 1..MaxResolution

\* values a user can drag each slider to (always within the slider's range)
Drag(name) ==
    CASE name = "slider_wavelength" -> {4000}
      [] name = "slider_thickness" -> {100}
      [] name = "slider_refractive" -> {20}
      [] name = "slider_angle" -> {60}

\* the four interactive parameters of the object
Params(s) ==
    [wavelength |-> s.wavelength, refractive_index |-> s.refractive_index,
     thickness |-> s.thickness,
     incidence_angle_range |-> s.incidence_angle_range]

\* ---------------------------------------------------------------- state ---
VARIABLES
    self,   \* the EqualInclinationInterference object
    ani,    \* the FuncAnimation: [frames, frame], frames = 0 before animate()
    args,   \* the arguments the constructor was called with
    prev,   \* Params(self) when the last handler started
    last    \* the last handler run: [kind, name, frame]

vars == <<self, ani, args, prev, last>>

Init ==
    /\ \E w \in ArgWavelength, ri \in ArgRefractive, d \in ArgThickness,
          a \in ArgAngle, imax \in ArgIntensity, n \in ArgResolution :
          /\ self = Construct(w, ri, d, a, imax, n)
          /\ args = [wavelength |-> w, refractive_index |-> ri,
                     thickness |-> d, incidence_angle_range |-> a]
    /\ ani = [frames |-> 0, frame |-> 0]
    /\ prev = Params(self)
    /\ last = [kind |-> "init", name |-> "", frame |-> 0]

\* the user drags one slider to a new value: Slider._update calls set_val
\* only when the value differs from the slider's current one
SliderChange ==
    \E name \in SliderNames : \E v \in Drag(name) :
        /\ v # self[name].val
        /\ self' = set_val([self EXCEPT !.draw_idle = 0], name, v)
        /\ prev' = Params(self)
        /\ last' = [kind |-> "slider", name |-> name, frame |-> 0]
        /\ UNCHANGED <<ani, args>>

\* the user clicks the Reset button
Reset ==
    /\ self' = reset([self EXCEPT !.draw_idle = 0])
    /\ prev' = Params(self)
    /\ last' = [kind |-> "reset", name |-> "", frame |-> 0]
    /\ UNCHANGED <<ani, args>>

\* animate(frames): creates the animation; frames are range(frames)
Animate ==
    \E frames \in 1..MaxFrames :
        /\ ani.frames = 0
        /\ ani' = [frames |-> frames, frame |-> 0]
        /\ UNCHANGED <<self, args, prev, last>>

\* one timer tick of the animation: update_frame(frame), then the next frame
\* of the repeating sequence 0..frames-1
AnimationStep ==
    /\ ani.frames > 0
    /\ self' = update_frame([self EXCEPT !.draw_idle = 0], ani.frame, ani.frames)
    /\ ani' = [ani EXCEPT !.frame = (ani.frame + 1) % ani.frames]
    /\ prev' = Params(self)
    /\ last' = [kind |-> "frame", name |-> "", frame |-> ani.frame]
    /\ UNCHANGED args

Next == SliderChange \/ Reset \/ Animate \/ AnimationStep

Spec == Init /\ [][Next]_vars

\* ---------------------------------------------------------- properties ---
ParamNames ==
    {"wavelength", "thickness", "refractive_index", "incidence_angle_range"}

\* the parameter update reads from each slider
ParamOf(name) ==
    CASE name = "slider_wavelength" -> "wavelength"
      [] name = "slider_thickness" -> "thickness"
      [] name = "slider_refractive" -> "refractive_index"
      [] name = "slider_angle" -> "incidence_angle_range"

\* the field of the constructor's arguments
ArgsPattern ==
    calculate_pattern(args.wavelength, args.refractive_index, args.thickness,
                      args.incidence_angle_range, self.intensity_max,
                      self.resolution)

\* all four parameters lie in the ranges of their sliders
ValidParams ==
    /\ self.wavelength \in 4000..8000
    /\ self.refractive_index \in 10..20
    /\ self.thickness \in 100..5000
    /\ self.incidence_angle_range \in 5..60

Idx == 0..(self.resolution - 1)

\* C1: once the reset handler has completed, the four parameters equal the
\* values passed at construction and the field of the parameters is the
\* field computed at construction.
C1_ResetRestoresArgs ==
    last.kind = "reset" => Params(self) = args /\ Pattern(self) = ArgsPattern

\* C2: for parameters within the valid ranges every element of the array
\* returned by _calculate_pattern lies in [0, 2 * intensity_max].
C2_FieldInRange ==
    ValidParams =>
        \A i \in Idx, j \in Idx :
            /\ 0 <= Pattern(self)[i][j]
            /\ Pattern(self)[i][j] <= 2 * 1000 * self.intensity_max

C2_Witness ==
    /\ ValidParams
    /\ last.kind = "slider"
    /\ \E i \in Idx, j \in Idx : Pattern(self)[i][j] < 1000 * self.intensity_max
    /\ \E i \in Idx, j \in Idx : Pattern(self)[i][j] > 1000 * self.intensity_max

\* C3: the field is mirror symmetric about both axes:
\* field[i][j] = field[i][n-1-j] and field[i][j] = field[n-1-i][j].
C3_MirrorSymmetric ==
    \A i \in Idx, j \in Idx :
        /\ Pattern(self)[i][j] = Pattern(self)[i][self.resolution - 1 - j]
        /\ Pattern(self)[i][j] = Pattern(self)[self.resolution - 1 - i][j]

C3_Witness ==
    /\ self.resolution >= 3
    /\ last.kind = "slider"
    /\ \E i \in Idx, j \in Idx :
          /\ Pattern(self)[i][j] # Pattern(self)[0][0]
          /\ j # self.resolution - 1 - j

\* the closed form intensity_max * (1 + cos(4 pi n d / wavelength))
CenterValue ==
    self.intensity_max *
        (1000 + Cos((2 * self.refractive_index * self.thickness * 1000)
                        \div self.wavelength))

\* the grid has a sample at x = 0, y = 0 and its value is the closed form
HasCenterSample ==
    \E i \in Idx, j \in Idx :
        /\ Linspace(self.incidence_angle_range, self.resolution, j) = 0
        /\ Linspace(self.incidence_angle_range, self.resolution, i) = 0
        /\ Pattern(self)[i][j] = CenterValue

\* C4 as stated: for every resolution the field has a sample at the center
\* (x = 0, y = 0) whose value is intensity_max * (1 + cos(4 pi n d / wavelength)).
C4_CenterEveryResolution == HasCenterSample

\* C4 amended: for every odd resolution of at least 3 the middle sample lies
\* at x = 0, y = 0 and has the closed-form value; for an even resolution and
\* for resolution 1 no sample lies at x = 0, y = 0.
C4_CenterOddResolution ==
    LET n == self.resolution
        a == self.incidence_angle_range
    IN  IF n % 2 = 1 /\ n >= 3
        THEN /\ Linspace(a, n, (n - 1) \div 2) = 0
             /\ Pattern(self)[(n - 1) \div 2][(n - 1) \div 2] = CenterValue
        ELSE \A i \in Idx : Linspace(a, n, i) # 0

C4_Witness ==
    /\ self.resolution = 3
    /\ last.kind = "slider"
    /\ Pattern(self)[1][1] # Pattern(self)[0][0]

\* C5: the thickness an animation step assigns, and the thickness the object
\* holds after the step, lie in [100, 5000] for every frame index; the
\* schedule at f = frames equals the schedule at f = 0.
C5_ScheduleInRange ==
    /\ last.kind = "frame" =>
          /\ self.thickness = Schedule(last.frame, ani.frames)
          /\ self.thickness \in 100..5000
    /\ ani.frames > 0 =>
          /\ \A f \in 0..ani.frames : Schedule(f, ani.frames) \in 100..5000
          /\ Schedule(ani.frames, ani.frames) = Schedule(0, ani.frames)

C5_Witness ==
    /\ last.kind = "frame"
    /\ last.frame = ani.frames - 1
    /\ self.thickness < 2550

\* C6: a slider-change event mutates exactly the parameter of that slider and
\* leaves the other three parameters unchanged.
C6_OneParameterChanges ==
    last.kind = "slider" =>
        /\ Params(self)[ParamOf(last.name)] = self[last.name].val
        /\ \A p \in ParamNames \ {ParamOf(last.name)} : Params(self)[p] = prev[p]

\* C7 as stated: every reset runs the recompute path, and afterwards the sink
\* holds the field and the display bounds of the construction-time values.
C7_ResetAlwaysRecomputes ==
    last.kind = "reset" =>
        /\ self.draw_idle >= 1
        /\ self.img = [data |-> ArgsPattern,
                       extent |-> Extent(args.incidence_angle_range)]

\* the sink contents computed from the sliders' initial values
InitialImg ==
    [data |-> calculate_pattern(self.slider_wavelength.valinit,
                                self.slider_refractive.valinit,
                                self.slider_thickness.valinit,
                                self.slider_angle.valinit,
                                self.intensity_max, self.resolution),
     extent |-> Extent(self.slider_angle.valinit)]

\* C7 amended: a reset runs the recompute path once for each control whose
\* value differs from its initial value, and not at all when every control is
\* at its initial value (the sink is then left as it was); when it has run,
\* the sink holds the field and bounds computed from the controls' initial
\* values, which are the construction-time values brought into the controls'
\* ranges.
C7_ResetRecomputesPerChangedControl ==
    [][(last'.kind = "reset" /\ ani' = ani) =>
        /\ self'.draw_idle =
              Cardinality({n \in SliderNames : self[n].val # self[n].valinit})
        /\ self'.draw_idle = 0 => self'.img = self.img
        /\ self'.draw_idle > 0 => self'.img = InitialImg
        /\ \A n \in SliderNames :
              /\ self'[n].val = self[n].valinit
              /\ self[n].valinit = value_in_bounds(n, args[ParamOf(n)])]_vars

C7_Witness ==
    /\ last.kind = "reset"
    /\ self.draw_idle = 2
    /\ self.img = InitialImg

\* C8: the display bounds held by the sink are [-a, a, -a, a] for the angle
\* range a that the field held by the sink was computed with.
C8_ExtentMatchesField ==
    \E a \in 0..90 :
        /\ self.img.extent = Extent(a)
        /\ a = self.incidence_angle_range
        /\ self.img.data =
              calculate_pattern(self.wavelength, self.refractive_index,
                                self.thickness, a, self.intensity_max,
                                self.resolution)

C8_Witness ==
    /\ last.kind = "slider"
    /\ last.name = "slider_angle"
    /\ prev.incidence_angle_range # self.incidence_angle_range
    /\ self.img.extent = Extent(60)

\* C9: after the animation step for frame f the sink holds the field computed
\* with thickness(f) and with the wavelength, refractive index and angle range
\* the object held before the step; f is in 0..frames-1.
C9_StepRecomputesWithSchedule ==
    last.kind = "frame" =>
        /\ last.frame \in 0..(ani.frames - 1)
        /\ ani.frame \in 0..(ani.frames - 1)
        /\ self.img.data =
              calculate_pattern(prev.wavelength, prev.refractive_index,
                                Schedule(last.frame, ani.frames),
                                prev.incidence_angle_range,
                                self.intensity_max, self.resolution)

\* C10: whenever no handler is running, the field held by the sink is
\* _calculate_pattern of the object's current four parameters.
C10_DisplayNeverStale == self.img.data = Pattern(self)

C10_Witness ==
    /\ last.kind = "frame"
    /\ prev.thickness # self.thickness
    /\ self.img.data # ArgsPattern

=============================================================================
